---- MODULE Spec2Model ----
(***************************************************************************)
(* RedisStore (src/mlrun/datastore/redis.py): a DataStore over the Redis   *)
(* key-value store.  Keys and values are sequences: a key is a sequence of *)
(* one-character strings, a value is a sequence of bytes (0..255).         *)
(***************************************************************************)
EXTENDS Integers, Sequences, FiniteSets, TLC

VARIABLES
    db,          \* the backend key space: physical key -> stored bytes
    _redis,      \* RedisStore._redis: "None", or the kind of client cached
    last,        \* the last operation: its arguments, outcome and backend commands
    wrote,       \* the last put or rm that completed: its arguments
    key,         \* codec: the logical key handed to build_redis_key
    key2,        \* codec: a second logical key
    redis_key,   \* codec: build_redis_key(key)
    redis_key2,  \* codec: build_redis_key(key2)
    mlrun_key,   \* codec: build_mlrun_key(redis_key)
    pc,          \* codec: position of the encode/decode pipeline
    calls,       \* redis property: its accesses so far, each with its position
    cached,      \* identity of the client object _redis refers to (0: None)
    made,        \* number of client objects constructed so far
    ctor,        \* __init__: its arguments, locals and outcome
    run,         \* the operation in progress, command by command
    touched,     \* physical keys another client wrote while run is in progress
    runs_db,     \* run endpoints: the runs stored, as (project, uid) pairs
    tasks,       \* run endpoints: the background tasks created
    granted,     \* run endpoints: the (project, action) pairs the caller is allowed
    req          \* run endpoints: the request in flight, with its trail of events

vars == <<db, _redis, last, wrote, key, key2, redis_key, redis_key2, mlrun_key, pc,
          calls, cached, made, ctor, run, touched,
          runs_db, tasks, granted, req>>

storeVars == <<db, _redis, last, wrote>>
codecVars == <<key, key2, redis_key, redis_key2, mlrun_key, pc>>
connVars == <<calls, cached, made>>
stepVars == <<run, touched>>
apiVars == <<runs_db, tasks, granted, req>>
procVars == <<connVars, ctor, stepVars, apiVars>>

\* no access of the redis property, no constructor and no stepwise operation
\* is being followed
ConnIdle == calls = <<>> /\ cached = 0 /\ made = 0
CtorIdle == ctor = [stage |-> "none"]
StepIdle == run = [op |-> "none"] /\ touched = {}
ApiIdle == runs_db = {} /\ tasks = {} /\ granted = {} /\ req = [endpoint |-> "none"]
ProcIdle == ConnIdle /\ CtorIdle /\ StepIdle /\ ApiIdle

-----------------------------------------------------------------------------
(* Bounds *)

\* longest key text following the (optional) scheme prefix
MaxKeyLen == 4

-----------------------------------------------------------------------------
(* Python string primitives, on sequences (Python indices are 0-based) *)

Min(a, b) == IF a < b THEN a ELSE b
Max(a, b) == IF a > b THEN a ELSE b

\* s.startswith(p)
StartsWith(s, p) == Len(p) <= Len(s) /\ SubSeq(s, 1, Len(p)) = p

\* s.endswith(p)
EndsWith(s, p) == Len(p) <= Len(s) /\ SubSeq(s, Len(s) - Len(p) + 1, Len(s)) = p

\* s.find(c, start): the lowest 0-based index >= start holding c, or -1
Find(s, c, start) ==
    LET hits == {i \in start..(Len(s) - 1) : s[i + 1] = c}
    IN  IF hits = {} THEN -1
        ELSE CHOOSE i \in hits : \A j \in hits : i <= j

\* s[start:stop], Python slice semantics for negative and out-of-range indices
PySlice(s, start, stop) ==
    LET n  == Len(s)
        lo == IF start < 0 THEN Max(n + start, 0) ELSE Min(start, n)
        hi == IF stop < 0 THEN Max(n + stop, 0) ELSE Min(stop, n)
    IN  IF lo >= hi THEN <<>> ELSE SubSeq(s, lo + 1, hi)

\* s[start:]
PySliceFrom(s, start) == PySlice(s, start, Len(s))

\* all sequences over S of length 0..n
SeqsUpTo(S, n) == UNION {[1..m -> S] : m \in 0..n}

-----------------------------------------------------------------------------
(* KeyCodec: build_redis_key / build_mlrun_key *)

redis_prefix  == <<"r", "e", "d", "i", "s", ":", "/", "/">>
rediss_prefix == <<"r", "e", "d", "i", "s", "s", ":", "/", "/">>
ds_prefix     == <<"d", "s", ":", "/", "/">>

\* prefixes = ["redis://", "rediss://", "ds://"]
prefixes == <<redis_prefix, rediss_prefix, ds_prefix>>

\* next((len(prefix) for prefix in prefixes if key.startswith(prefix)), 0)
PrefixLen(k) ==
    LET hits == {i \in 1..Len(prefixes) : StartsWith(k, prefixes[i])}
    IN  IF hits = {} THEN 0
        ELSE Len(prefixes[CHOOSE i \in hits : \A j \in hits : i <= j])

\* RedisStore.build_redis_key(key, prefix_only)
build_redis_key(k, prefix_only) ==
    LET start == Find(k, "/", PrefixLen(k))
        body  == <<"{">> \o PySliceFrom(k, start)
    IN  IF prefix_only = FALSE THEN body \o <<"}">> ELSE body

\* RedisStore.build_mlrun_key(key): key[len("{") : -len("}")]
build_mlrun_key(k) == PySlice(k, 1, -1)

-----------------------------------------------------------------------------
(* The Redis backend, as the commands RedisStore issues see it *)

\* an optional argument: <<>> is Python's None, <<v>> is the value v
None == <<>>
Some(v) == <<v>>

\* SET key value
RedisSet(d, k, v) == [x \in DOMAIN d \cup {k} |-> IF x = k THEN v ELSE d[x]]

\* a put that overwrites where it should append
RedisAppend_Overwrite(d, k, v) == RedisSet(d, k, v)

\* APPEND key value: creates the key when it is absent
RedisAppend(d, k, v) ==
    [x \in DOMAIN d \cup {k} |->
        IF x = k THEN (IF k \in DOMAIN d THEN d[k] ELSE <<>>) \o v ELSE d[x]]

\* DEL key: no error when the key is absent
RedisDelete(d, k) == [x \in DOMAIN d \ {k} |-> d[x]]

\* GETRANGE key start end: both ends inclusive, negative indices count from
\* the end of the value, an absent key reads as the empty string
RedisGetRange(d, k, start, end) ==
    LET v  == IF k \in DOMAIN d THEN d[k] ELSE <<>>
        n  == Len(v)
        s1 == IF start < 0 THEN Max(n + start, 0) ELSE start
        e1 == IF end < 0 THEN Max(n + end, 0) ELSE end
        e2 == IF e1 >= n THEN n - 1 ELSE e1
    IN  IF (start < 0 /\ end < 0 /\ start > end) \/ n = 0 \/ s1 > e2
        THEN <<>>
        ELSE SubSeq(v, s1 + 1, e2 + 1)

\* glob-style match of SCAN ... MATCH pattern ('*' and '?'; the patterns built
\* here hold no '[' and no '\')
RECURSIVE GlobMatch(_, _)
GlobMatch(p, s) ==
    IF p = <<>> THEN s = <<>>
    ELSE IF Head(p) = "*"
         THEN GlobMatch(Tail(p), s) \/ (s # <<>> /\ GlobMatch(p, Tail(s)))
         ELSE /\ s # <<>>
              /\ (Head(p) = "?" \/ Head(p) = Head(s))
              /\ GlobMatch(Tail(p), Tail(s))

\* scan_iter(pattern), drained with no concurrent writer: every matching key
RedisScan(d, pattern) == {k \in DOMAIN d : GlobMatch(pattern, k)}

\* the UTF-8 decoding that decode_responses=True applies to a reply: one-byte
\* (ASCII) and two-byte sequences; any other byte is undecodable
RECURSIVE Utf8Valid(_)
Utf8Valid(b) ==
    IF b = <<>> THEN TRUE
    ELSE IF b[1] < 128 THEN Utf8Valid(Tail(b))
    ELSE IF b[1] >= 194 /\ b[1] <= 223
         THEN /\ Len(b) >= 2
              /\ b[2] >= 128
              /\ b[2] <= 191
              /\ Utf8Valid(Tail(Tail(b)))
    ELSE FALSE

\* from_url(self._redis_url, decode_responses=True): a bulk reply is returned
\* as text (kept here as the bytes that encode it), and an undecodable reply
\* raises UnicodeDecodeError
DecodeResponse(b) ==
    IF Utf8Valid(b)
    THEN [status |-> "ok", ret |-> b]
    ELSE [status |-> "UnicodeDecodeError", ret |-> <<>>]

-----------------------------------------------------------------------------
(* ConnectionManager: the redis property *)

\* outcomes of RedisCluster.from_url and, when it is tried, of Redis.from_url
ConnEnvs ==
    { [cluster |-> "ok", single |-> "untried"],
      [cluster |-> "RedisClusterException", single |-> "ok"],
      [cluster |-> "RedisClusterException", single |-> "OtherError"],
      [cluster |-> "OtherError", single |-> "untried"] }

\* the outcomes that matter to the next access of the redis property: none
\* once the handle is cached
Envs == IF _redis = "None" THEN ConnEnvs
        ELSE {[cluster |-> "untried", single |-> "untried"]}

\* RedisStore.redis: the cached handle, or a cluster client, or on
\* RedisClusterException a single-node client; any other error propagates
\* and leaves _redis None
Connect(cur, env) ==
    IF cur # "None" THEN [status |-> "ok", handle |-> cur]
    ELSE IF env.cluster = "ok" THEN [status |-> "ok", handle |-> "cluster"]
    ELSE IF env.cluster = "RedisClusterException"
         THEN IF env.single = "ok"
              THEN [status |-> "ok", handle |-> "single"]
              ELSE [status |-> env.single, handle |-> "None"]
    ELSE [status |-> env.cluster, handle |-> "None"]

-----------------------------------------------------------------------------
(* RangeIO: get, put *)

\* what an operation leaves in last
Outcome(op, k, args, status, ret, cmds) ==
    [op |-> op, key |-> k, args |-> args, status |-> status, ret |-> ret,
     cmds |-> cmds, pre |-> db, pre_redis |-> _redis]

\* argument checks that forget the size
GetArgsInvalid_OffsetOnly(size, offset) == offset < 0

\* get's argument checks: offset < 0, or an explicit size <= 0
GetArgsInvalid(size, offset) == offset < 0 \/ (size # None /\ size[1] <= 0)

\* RedisStore.get(key, size, offset)
Get(k, size, offset, env) ==
    LET rkey == build_redis_key(k, FALSE)
        args == [size |-> size, offset |-> offset]
    IN  IF GetArgsInvalid(size, offset)
        THEN /\ last' = Outcome("get", k, args, "MLRunInvalidArgumentError", <<>>, <<>>)
             /\ UNCHANGED <<db, _redis, wrote>>
        ELSE LET start_offset == offset
                 end_offset == IF size = None THEN -1 ELSE start_offset + size[1] - 1
                 conn == Connect(_redis, env)
                 reply == DecodeResponse(RedisGetRange(db, rkey, start_offset, end_offset))
             IN  /\ _redis' = conn.handle
                 /\ UNCHANGED <<db, wrote>>
                 /\ last' = IF conn.status # "ok"
                            THEN Outcome("get", k, args, conn.status, <<>>, <<>>)
                            ELSE Outcome("get", k, args, reply.status, reply.ret,
                                         <<<<"GETRANGE", rkey, start_offset, end_offset>>>>)

\* RedisStore.put(key, data, append)
Put(k, data, append, env) ==
    LET rkey == build_redis_key(k, FALSE)
        args == [data |-> data, append |-> append]
        conn == Connect(_redis, env)
        \* the value an append extends (None: an overwrite, or no value yet)
        old  == IF append /\ rkey \in DOMAIN db THEN Some(db[rkey]) ELSE None
    IN  /\ _redis' = conn.handle
        /\ IF conn.status # "ok"
           THEN /\ last' = Outcome("put", k, args, conn.status, <<>>, <<>>)
                /\ UNCHANGED db
           ELSE IF append
           THEN /\ db' = RedisAppend(db, rkey, data)
                /\ last' = Outcome("put", k, args, "ok", <<>>, <<<<"APPEND", rkey, data>>>>)
           ELSE /\ db' = RedisSet(db, rkey, data)
                /\ last' = Outcome("put", k, args, "ok", <<>>, <<<<"SET", rkey, data>>>>)
        /\ wrote' = IF conn.status = "ok"
                    THEN [op |-> "put", key |-> k, args |-> args, old |-> old]
                    ELSE wrote

-----------------------------------------------------------------------------
(* Enumerator: listdir, rm *)

spark_prefix == <<"_", "s", "p", "a", "r", "k", ":">>

\* key += "*" if key.endswith("/") else "/*"
ScanPattern(rkey) ==
    IF EndsWith(rkey, <<"/">>) THEN rkey \o <<"*">> ELSE rkey \o <<"/", "*">>

\* RedisStore.listdir(key)
Listdir(k, env) ==
    LET pattern == ScanPattern(build_redis_key(k, TRUE))
        conn == Connect(_redis, env)
        response == {build_mlrun_key(rk) : rk \in RedisScan(db, pattern)}
    IN  /\ _redis' = conn.handle
        /\ UNCHANGED <<db, wrote>>
        /\ last' = IF conn.status # "ok"
                   THEN Outcome("listdir", k, <<>>, conn.status, {}, <<>>)
                   ELSE Outcome("listdir", k, <<>>, "ok", response,
                                <<<<"SCAN", pattern>>>>)

\* an rm that ignores maxdepth
RmUnsupported_Never(maxdepth) == FALSE

\* rm's argument check: maxdepth is not supported
RmUnsupported(maxdepth) == maxdepth # None

\* an rm that encodes its key in prefix-only mode whatever recursive is
RmTargets_OpenKey(d, k, recursive) ==
    LET rkey == build_redis_key(k, TRUE)
    IN  IF recursive
        THEN RedisScan(d, ScanPattern(rkey))
                 \cup RedisScan(d, spark_prefix \o ScanPattern(rkey))
        ELSE {rkey}

\* the keys rm deletes: the matches of the pattern and of the pattern under
\* "_spark:" when recursive, else the one key
RmTargets(d, k, recursive) ==
    LET rkey == build_redis_key(k, recursive)
    IN  IF recursive
        THEN RedisScan(d, ScanPattern(rkey))
                 \cup RedisScan(d, spark_prefix \o ScanPattern(rkey))
        ELSE {rkey}

\* RedisStore.rm(key, recursive, maxdepth)
Rm(k, recursive, maxdepth, env) ==
    LET args == [recursive |-> recursive, maxdepth |-> maxdepth]
    IN  IF RmUnsupported(maxdepth)
        THEN /\ last' = Outcome("rm", k, args, "NotImplementedError", <<>>, <<>>)
             /\ UNCHANGED <<db, _redis, wrote>>
        ELSE LET rkey == build_redis_key(k, recursive)
                 conn == Connect(_redis, env)
                 pattern == ScanPattern(rkey)
                 spark == spark_prefix \o pattern
             IN  /\ _redis' = conn.handle
                 /\ wrote' = IF conn.status = "ok"
                               THEN [op |-> "rm", key |-> k, args |-> args, old |-> None]
                               ELSE wrote
                 /\ IF conn.status # "ok"
                    THEN /\ last' = Outcome("rm", k, args, conn.status, <<>>, <<>>)
                         /\ UNCHANGED db
                    ELSE /\ db' = [x \in DOMAIN db \ RmTargets(db, k, recursive) |-> db[x]]
                         /\ last' =
                              IF recursive
                              THEN Outcome("rm", k, args, "ok", <<>>,
                                       << <<"SCAN", pattern>>,
                                          <<"DEL", RedisScan(db, pattern)>>,
                                          <<"SCAN", spark>>,
                                          <<"DEL", RedisScan(db, spark)>> >>)
                              ELSE Outcome("rm", k, args, "ok", <<>>,
                                       << <<"DEL", {rkey}>> >>)

-----------------------------------------------------------------------------
(* SpecIO: get and put on byte values *)

\* longest stored value
MaxValLen == 2

\* 'a', 'b', and the two bytes of U+00E9 (0xC3 0xA9)
IOData == {<<>>, <<97>>, <<98>>, <<195, 169>>, <<195>>}

key_k == <<"/", "k">>
key_j == <<"/", "j">>

\* puts: any datum on /k, overwritten or appended; one overwrite on /j
IOPuts ==
    ({key_k} \X IOData \X BOOLEAN) \cup {<<key_j, <<98>>, FALSE>>}

IOKeys == {key_k, key_j}
IOSizes == {None, Some(-1), Some(0), Some(1), Some(2)}
IOOffsets == {-1, 0, 1, 2}

CodecIdle ==
    /\ key = <<>>
    /\ key2 = <<>>
    /\ redis_key = <<>>
    /\ redis_key2 = <<>>
    /\ mlrun_key = <<>>
    /\ pc = "store"

\* RedisStore.__init__: no handle yet; the backend holds nothing
InitIO ==
    /\ db = [x \in {} |-> <<>>]
    /\ _redis = "None"
    /\ last = [op |-> "none"]
    /\ wrote = [op |-> "none"]
    /\ CodecIdle
    /\ ProcIdle

\* the value put(k, data, append) stores fits the bound
Fits(k, data, append) ==
    LET rkey == build_redis_key(k, FALSE)
        old  == IF append /\ rkey \in DOMAIN db THEN db[rkey] ELSE <<>>
    IN  Len(old) + Len(data) <= MaxValLen

NextIO ==
    \/ \E p \in IOPuts, env \in Envs :
          /\ Fits(p[1], p[2], p[3])
          /\ Put(p[1], p[2], p[3], env)
          /\ UNCHANGED <<codecVars, procVars>>
    \/ \E k \in IOKeys, size \in IOSizes, offset \in IOOffsets, env \in Envs :
          /\ Get(k, size, offset, env)
          /\ UNCHANGED <<codecVars, procVars>>

SpecIO == InitIO /\ [][NextIO]_vars

-----------------------------------------------------------------------------
(* SpecDir: put, listdir and rm on a small tree of keys *)

DirData == {<<97>>}

slash_a_x == <<"/", "a", "/", "x">>
slash_b_z == <<"/", "b", "/", "z">>
a_x == <<"a", "/", "x">>
a_y == <<"a", "/", "y">>
b_z == <<"b", "/", "z">>

DirPutKeys == {slash_a_x, slash_b_z, a_x, a_y, b_z}
DirListKeys == {<<"a", "/">>, <<"/", "a", "/">>, <<"/", "a">>, <<"/", "b", "/">>}
DirRmKeys == {slash_a_x, <<"/", "a", "/">>, <<"a", "/">>, <<"/", "q">>}
DirMaxdepths == {None, Some(2)}

\* keys of the auxiliary namespace, staged by the downstream integration
SparkKeys == {spark_prefix \o build_redis_key(k, FALSE) : k \in {slash_a_x, slash_b_z}}

\* RedisStore.__init__: no handle yet; the backend may hold staged keys
InitDir ==
    /\ db \in UNION {[S -> DirData] : S \in SUBSET SparkKeys}
    /\ _redis = "None"
    /\ last = [op |-> "none"]
    /\ wrote = [op |-> "none"]
    /\ CodecIdle
    /\ ProcIdle

NextDir ==
    \/ \E k \in DirPutKeys, data \in DirData, env \in Envs :
          /\ Put(k, data, FALSE, env)
          /\ UNCHANGED <<codecVars, procVars>>
    \/ \E k \in DirListKeys, env \in Envs :
          /\ Listdir(k, env)
          /\ UNCHANGED <<codecVars, procVars>>
    \/ \E k \in DirRmKeys, recursive \in BOOLEAN, maxdepth \in DirMaxdepths,
          env \in Envs :
          /\ Rm(k, recursive, maxdepth, env)
          /\ UNCHANGED <<codecVars, procVars>>

SpecDir == InitDir /\ [][NextDir]_vars

-----------------------------------------------------------------------------
(* Inputs of the codec specifications *)

KeyChars == {"/", "a", "b"}

Preambles == {<<>>, redis_prefix, rediss_prefix, ds_prefix}

CodecKeys == {p \o t : p \in Preambles, t \in SeqsUpTo(KeyChars, MaxKeyLen)}

PairKeys == {p \o t : p \in {<<>>, redis_prefix}, t \in SeqsUpTo(KeyChars, MaxKeyLen)}

NoStore == db = [x \in {} |-> <<>>] /\ _redis = "None" /\ last = [op |-> "none"] /\ wrote = [op |-> "none"]

-----------------------------------------------------------------------------
(* SpecCodec: one key through encode, then decode *)

InitCodec ==
    /\ key \in CodecKeys
    /\ key2 = <<>>
    /\ redis_key = <<>>
    /\ redis_key2 = <<>>
    /\ mlrun_key = <<>>
    /\ pc = "start"
    /\ NoStore
    /\ ProcIdle

\* key = RedisStore.build_redis_key(key, prefix_only)
Encode(prefix_only) ==
    /\ pc = "start"
    /\ redis_key' = build_redis_key(key, prefix_only)
    /\ pc' = IF prefix_only THEN "pattern_base" ELSE "encoded"
    /\ UNCHANGED <<key, key2, redis_key2, mlrun_key, storeVars, procVars>>

\* RedisStore.build_mlrun_key(key), on a key produced with prefix_only=False
Decode ==
    /\ pc = "encoded"
    /\ mlrun_key' = build_mlrun_key(redis_key)
    /\ pc' = "decoded"
    /\ UNCHANGED <<key, key2, redis_key, redis_key2, storeVars, procVars>>

NextCodec ==
    \/ \E prefix_only \in BOOLEAN : Encode(prefix_only)
    \/ Decode

SpecCodec == InitCodec /\ [][NextCodec]_vars

-----------------------------------------------------------------------------
(* SpecShard: two keys encoded side by side *)

InitShard ==
    /\ key \in PairKeys
    /\ key2 \in PairKeys
    /\ redis_key = <<>>
    /\ redis_key2 = <<>>
    /\ mlrun_key = <<>>
    /\ pc = "start"
    /\ NoStore
    /\ ProcIdle

EncodePair ==
    /\ pc = "start"
    /\ redis_key' = build_redis_key(key, FALSE)
    /\ redis_key2' = build_redis_key(key2, FALSE)
    /\ pc' = "encoded"
    /\ UNCHANGED <<key, key2, mlrun_key, storeVars, procVars>>

NextShard == EncodePair

SpecShard == InitShard /\ [][NextShard]_vars

-----------------------------------------------------------------------------
(* Path tail of a logical key, as the specification words it *)

\* there is a '/' at or after the end of the stripped scheme prefix
HasPathTail(k) == \E i \in (PrefixLen(k) + 1)..Len(k) : k[i] = "/"

\* the substring starting at the first such '/' (none: the empty string)
PathTailOf(k) ==
    IF HasPathTail(k)
    THEN LET i == CHOOSE i \in (PrefixLen(k) + 1)..Len(k) :
                     /\ k[i] = "/"
                     /\ \A j \in (PrefixLen(k) + 1)..(i - 1) : k[j] # "/"
         IN  SubSeq(k, i, Len(k))
    ELSE <<>>

\* C5: decode(encode(k, prefixOnly=false)) equals the path tail of k, the
\* substring of k that starts at the first '/' at or after the end of the
\* stripped scheme prefix, for every logical key k (with or without a
\* recognized scheme prefix).
C5_RoundTrip ==
    pc = "decoded" => (HasPathTail(key) /\ mlrun_key = PathTailOf(key))

\* the round trip on the keys that have a '/' at or after the scheme prefix
RoundTripWithSlash ==
    (pc = "decoded" /\ HasPathTail(key)) => mlrun_key = PathTailOf(key)

\* on the keys without such a '/', find() returns -1 and key[-1:] keeps the
\* last character of the key
NoSlashKeepsLastChar ==
    (pc = "decoded" /\ ~HasPathTail(key)) => mlrun_key = PySliceFrom(key, -1)

-----------------------------------------------------------------------------
(* Shard placement, as the specification words it *)

\* the text between the first '{' and the first following '}' of a
\* physical key (the whole key when there is no such pair)
HashedSpan(pk) ==
    LET open == Find(pk, "{", 0)
        shut == IF open < 0 THEN -1 ELSE Find(pk, "}", open + 1)
    IN  IF open < 0 \/ shut < 0 \/ shut = open + 1 THEN pk
        ELSE PySlice(pk, open + 1, shut)

\* the directory of a path tail: the tail up to its last '/'
Dirname(t) ==
    LET slashes == {i \in 1..Len(t) : t[i] = "/"}
    IN  IF slashes = {} THEN <<>>
        ELSE SubSeq(t, 1, (CHOOSE i \in slashes : \A j \in slashes : j <= i) - 1)

\* directory siblings: two different path tails that name entries (no
\* trailing '/') of the same directory below the root, as /a/x and /a/y
Siblings(k1, k2) ==
    /\ HasPathTail(k1)
    /\ HasPathTail(k2)
    /\ ~EndsWith(PathTailOf(k1), <<"/">>)
    /\ ~EndsWith(PathTailOf(k2), <<"/">>)
    /\ Dirname(PathTailOf(k1)) # <<>>
    /\ PathTailOf(k1) # PathTailOf(k2)
    /\ Dirname(PathTailOf(k1)) = Dirname(PathTailOf(k2))

\* C6: the physical keys of two directory siblings (e.g. /a/x and /a/y)
\* have the same hashed span, so both are placed on the same shard.
C6_SiblingsSameSpan ==
    (pc = "encoded" /\ Siblings(key, key2))
        => HashedSpan(redis_key) = HashedSpan(redis_key2)

\* what the code does: the hashed span of a key is its whole path tail
SpanIsWholeTail ==
    (pc = "encoded" /\ HasPathTail(key)) => HashedSpan(redis_key) = PathTailOf(key)

-----------------------------------------------------------------------------
(* RangeIO claims, under SpecIO *)

\* the stored value of a physical key (absent: the empty string)
ValueOf(d, rk) == IF rk \in DOMAIN d THEN d[rk] ELSE <<>>

LastIs(op) == last.op = op

\* the last operation is get(k) with default size and offset
DefaultGet == LastIs("get") /\ last.args.size = None /\ last.args.offset = 0

\* C1: put(k, d, append=False) followed, with no intervening write, by
\* get(k) with default size and offset returns exactly d, for every byte
\* string d.
C1_PutThenGet ==
    (/\ DefaultGet
     /\ wrote.op = "put"
     /\ wrote.args.append = FALSE
     /\ wrote.key = last.key)
        => (last.status = "ok" /\ last.ret = wrote.args.data)

\* the same round trip for the data that are valid UTF-8
PutThenGetText ==
    (/\ DefaultGet
     /\ wrote.op = "put"
     /\ wrote.args.append = FALSE
     /\ wrote.key = last.key
     /\ Utf8Valid(wrote.args.data))
        => (last.status = "ok" /\ last.ret = wrote.args.data)

\* C2: put(k, d, append=True) leaves the value of k equal to its previous
\* value followed by d, and creates the value as d when k was absent; and
\* after put(k, "a", append=False); put(k, "b", append=True), get(k)
\* returns "ab".
C2_Append ==
    /\ (LastIs("put") /\ last.status = "ok" /\ last.args.append)
          => LET rk == build_redis_key(last.key, FALSE)
             IN  /\ rk \in DOMAIN db
                 /\ db[rk] = ValueOf(last.pre, rk) \o last.args.data
                 /\ \A x \in DOMAIN last.pre \ {rk} :
                        x \in DOMAIN db /\ db[x] = last.pre[x]
    /\ (/\ DefaultGet
        /\ wrote.op = "put"
        /\ wrote.args.append
        /\ wrote.key = last.key
        /\ wrote.args.data = <<98>>
        /\ wrote.old = Some(<<97>>))
          => (last.status = "ok" /\ last.ret = <<97, 98>>)

\* C2's case: "b" was appended to "a" and get returned "ab"
C2_Witness ==
    /\ DefaultGet
    /\ wrote.op = "put"
    /\ wrote.args.append
    /\ wrote.key = last.key
    /\ wrote.args.data = <<98>>
    /\ wrote.old = Some(<<97>>)
    /\ last.ret = <<97, 98>>

\* the bytes of v at positions offset .. min(offset + size - 1, Len(v) - 1)
BytesAt(v, offset, size) ==
    IF offset >= Len(v) THEN <<>>
    ELSE SubSeq(v, offset + 1, Min(offset + size, Len(v)))

\* a get that passed its argument checks and reached the backend
GetReadBackend == LastIs("get") /\ last.cmds # <<>>

\* C3: for every stored value v, offset >= 0 and size > 0, get(k, size,
\* offset) returns the bytes of v at positions offset .. min(offset+size-1,
\* len(v)-1), at most size bytes; get(k, size=None, offset=0) returns all of v.
C3_GetRange ==
    (GetReadBackend /\ build_redis_key(last.key, FALSE) \in DOMAIN last.pre)
        => LET v == last.pre[build_redis_key(last.key, FALSE)]
           IN  /\ last.args.size # None
                    => /\ last.status = "ok"
                       /\ last.ret = BytesAt(v, last.args.offset, last.args.size[1])
                       /\ Len(last.ret) <= last.args.size[1]
               /\ (last.args.size = None /\ last.args.offset = 0)
                    => (last.status = "ok" /\ last.ret = v)

\* the same, for the reads whose byte range is valid UTF-8 on its own
GetRangeText ==
    (GetReadBackend /\ last.status = "ok")
        => LET v == ValueOf(last.pre, build_redis_key(last.key, FALSE))
           IN  /\ last.args.size # None
                    => last.ret = BytesAt(v, last.args.offset, last.args.size[1])
               /\ last.args.size = None
                    => last.ret = PySliceFrom(v, last.args.offset)

\* C4: get fails with an invalid-argument error whenever offset < 0 or an
\* explicit size is <= 0; it then issues no backend read, creates no
\* connection handle and leaves every stored value unchanged.
C4_InvalidArgument ==
    (/\ LastIs("get")
     /\ \/ last.args.offset < 0
        \/ (last.args.size # None /\ last.args.size[1] <= 0))
        => /\ last.status = "MLRunInvalidArgumentError"
           /\ last.cmds = <<>>
           /\ _redis = last.pre_redis
           /\ db = last.pre

\* C4's case: size = 0 on a store that never connected
C4_Witness ==
    /\ LastIs("get")
    /\ last.args.size = Some(0)
    /\ last.args.offset = 0
    /\ last.status = "MLRunInvalidArgumentError"
    /\ _redis = "None"

-----------------------------------------------------------------------------
(* Enumerator claims, under SpecDir *)

\* the keys of the primary namespace held by d
PrimaryKeys(d) == {rk \in DOMAIN d : ~StartsWith(rk, spark_prefix)}

\* d holds, in its primary namespace, exactly what puts on ks store
StoredExactly(d, ks) == PrimaryKeys(d) = {build_redis_key(k, FALSE) : k \in ks}

\* every key of d that a put on one of ks stored is still in e, unchanged
Untouched(d, e, ks) ==
    \A k \in ks :
        LET rk == build_redis_key(k, FALSE)
        IN  rk \in DOMAIN d => (rk \in DOMAIN e /\ e[rk] = d[rk])

dir_a == <<"a", "/">>
slash_dir_a == <<"/", "a", "/">>

\* C7: with no concurrent writer, after storing values under a/x, a/y and
\* b/z, listdir("a/") returns exactly {a/x, a/y}: the keys stored under the
\* prefix and no key stored under a different prefix.
C7_ListdirPrefix ==
    (/\ LastIs("listdir")
     /\ last.status = "ok"
     /\ last.key = dir_a
     /\ StoredExactly(last.pre, {a_x, a_y, b_z}))
        => last.ret = {a_x, a_y}

\* what listdir returns: the path tails of the stored keys that match
\* '{' + tail of the listed key + '/*'
ListdirReturnsMatchingTails ==
    (LastIs("listdir") /\ last.status = "ok" /\ HasPathTail(last.key))
        => last.ret =
             { build_mlrun_key(rk) : rk \in
                 { x \in PrimaryKeys(last.pre) :
                     LET dir == IF EndsWith(PathTailOf(last.key), <<"/">>)
                                THEN PathTailOf(last.key)
                                ELSE PathTailOf(last.key) \o <<"/">>
                     IN  StartsWith(x, <<"{">> \o dir) } }

\* C8: with no concurrent writer, after rm("a/", recursive=True) returns,
\* listdir("a/") returns an empty collection, and every key stored under
\* the prefix b/ still exists with its value unchanged.
C8_RmRecursive ==
    /\ (/\ LastIs("listdir")
        /\ last.status = "ok"
        /\ last.key = dir_a
        /\ wrote.op = "rm"
        /\ wrote.key = dir_a
        /\ wrote.args.recursive)
          => last.ret = {}
    /\ (/\ LastIs("rm")
        /\ last.status = "ok"
        /\ last.key = dir_a
        /\ last.args.recursive)
          => Untouched(last.pre, db, {b_z})

\* the same with the keys written with a leading '/': /a/ and /b/z
RmRecursiveSlash ==
    /\ (/\ LastIs("listdir")
        /\ last.status = "ok"
        /\ last.key = slash_dir_a
        /\ wrote.op = "rm"
        /\ wrote.key = slash_dir_a
        /\ wrote.args.recursive)
          => last.ret = {}
    /\ (/\ LastIs("rm")
        /\ last.status = "ok"
        /\ last.key = slash_dir_a
        /\ last.args.recursive)
          => Untouched(last.pre, db, {slash_b_z})

\* the connection could not be established: the error of from_url propagates
ConnectionFailed == last.status = "OtherError"

\* C9: rm(k, recursive=False) with maxdepth null removes exactly the one
\* physical key encode(k, prefixOnly=false) and leaves every other key and
\* value unchanged; when that key is absent the call completes without an
\* error and the backend is unchanged.
C9_RmOne ==
    (/\ LastIs("rm")
     /\ last.args.recursive = FALSE
     /\ last.args.maxdepth = None
     /\ ~ConnectionFailed)
        => LET tail == PySliceFrom(last.key, Find(last.key, "/", PrefixLen(last.key)))
               rk   == <<"{">> \o tail \o <<"}">>
           IN  /\ last.status = "ok"
               /\ DOMAIN db = DOMAIN last.pre \ {rk}
               /\ \A x \in DOMAIN db : db[x] = last.pre[x]
               /\ rk \notin DOMAIN last.pre => db = last.pre

\* C9's case: a stored key was removed and another stored key remains
C9_Witness ==
    /\ LastIs("rm")
    /\ last.args.recursive = FALSE
    /\ last.status = "ok"
    /\ DOMAIN last.pre # DOMAIN db
    /\ PrimaryKeys(db) # {}

\* C10: rm with any non-null maxdepth fails with a not-implemented error for
\* either value of recursive, before any scan or delete is issued: no key of
\* the primary or of the auxiliary namespace is removed.
C10_Maxdepth ==
    (LastIs("rm") /\ last.args.maxdepth # None)
        => /\ last.status = "NotImplementedError"
           /\ last.cmds = <<>>
           /\ db = last.pre
           /\ _redis = last.pre_redis

\* C10's case: rm(/a/, recursive=True, maxdepth=2) on a backend that holds a
\* matching key in each namespace
C10_Witness ==
    /\ LastIs("rm")
    /\ last.key = slash_dir_a
    /\ last.args.recursive
    /\ last.args.maxdepth = Some(2)
    /\ last.status = "NotImplementedError"
    /\ build_redis_key(slash_a_x, FALSE) \in DOMAIN db
    /\ spark_prefix \o build_redis_key(slash_a_x, FALSE) \in DOMAIN db

-----------------------------------------------------------------------------
(* SpecConn, SpecConnRace: the redis property, statement by statement *)

\* accesses of the redis property followed in one behaviour
MaxCalls == 3

\* what RedisCluster.from_url can end with: a cluster client, or one of the
\* failures; redis-py raises RedisClusterException when the node answers that
\* cluster mode is not enabled and also when no startup node can be reached
ClusterOutcomes == {"ok", "NotACluster", "Unreachable", "OtherError"}

\* what Redis.from_url can end with
SingleOutcomes == {"ok", "OtherError"}

\* the exception a failed construction raises
ExceptionOf(o) ==
    IF o \in {"NotACluster", "Unreachable"} THEN "RedisClusterException" ELSE o

\* an access that constructs whatever _redis holds
NeedsConnect_Always(r) == TRUE

\* if self._redis is None
NeedsConnect(r) == r = "None"

\* except redis.cluster.RedisClusterException
FallsBack(o) == ExceptionOf(o) = "RedisClusterException"

InProgress(c) == c.pc \in {"cluster", "single", "return"}

\* self.redis is read: the test of line 62
Access ==
    /\ Len(calls) < MaxCalls
    /\ calls' = Append(calls, [pc |-> IF NeedsConnect(_redis) THEN "cluster" ELSE "return",
                               cluster |-> "untried", single |-> "untried", ret |-> 0])
    /\ UNCHANGED <<_redis, cached, made>>

\* self._redis = redis.cluster.RedisCluster.from_url(self._redis_url, ...)
ClusterAttempt(i, o) ==
    /\ calls[i].pc = "cluster"
    /\ calls' = [calls EXCEPT ![i].cluster = o,
                              ![i].pc = IF o = "ok" THEN "return"
                                        ELSE IF FallsBack(o) THEN "single"
                                        ELSE "raised"]
    /\ IF o = "ok"
       THEN /\ made' = made + 1
            /\ cached' = made + 1
            /\ _redis' = "cluster"
       ELSE UNCHANGED <<_redis, cached, made>>

\* self._redis = redis.Redis.from_url(self._redis_url, ...)
SingleAttempt(i, o) ==
    /\ calls[i].pc = "single"
    /\ calls' = [calls EXCEPT ![i].single = o,
                              ![i].pc = IF o = "ok" THEN "return" ELSE "raised"]
    /\ IF o = "ok"
       THEN /\ made' = made + 1
            /\ cached' = made + 1
            /\ _redis' = "single"
       ELSE UNCHANGED <<_redis, cached, made>>

\* return self._redis
Return(i) ==
    /\ calls[i].pc = "return"
    /\ calls' = [calls EXCEPT ![i].ret = cached, ![i].pc = "done"]
    /\ UNCHANGED <<_redis, cached, made>>

ConnFrame == UNCHANGED <<db, last, wrote, codecVars, ctor, stepVars, apiVars>>

\* RedisStore.__init__: self._redis = None
InitConn ==
    /\ db = [x \in {} |-> <<>>]
    /\ _redis = "None"
    /\ last = [op |-> "none"]
    /\ wrote = [op |-> "none"]
    /\ CodecIdle
    /\ ProcIdle

\* accesses one after the other: a new one starts when none is in progress
NextConn ==
    \/ (\A i \in DOMAIN calls : ~InProgress(calls[i])) /\ Access /\ ConnFrame
    \/ \E i \in DOMAIN calls, o \in ClusterOutcomes : ClusterAttempt(i, o) /\ ConnFrame
    \/ \E i \in DOMAIN calls, o \in SingleOutcomes : SingleAttempt(i, o) /\ ConnFrame
    \/ \E i \in DOMAIN calls : Return(i) /\ ConnFrame

SpecConn == InitConn /\ [][NextConn]_vars

\* accesses from several threads: the property takes no lock, an access may
\* start and proceed while others are in progress
NextConnRace ==
    \/ Access /\ ConnFrame
    \/ \E i \in DOMAIN calls, o \in ClusterOutcomes : ClusterAttempt(i, o) /\ ConnFrame
    \/ \E i \in DOMAIN calls, o \in SingleOutcomes : SingleAttempt(i, o) /\ ConnFrame
    \/ \E i \in DOMAIN calls : Return(i) /\ ConnFrame

SpecConnRace == InitConn /\ [][NextConnRace]_vars

Constructed(c) == c.cluster = "ok" \/ c.single = "ok"
Attempted(c) == c.cluster # "untried" \/ c.single # "untried"

\* C11: the handle is created lazily and memoized: after construction no
\* client exists, a client exists only once an access constructed it, and
\* every access that follows a completed one makes no construction attempt
\* and returns the same handle
C11_LazyMemoized ==
    /\ (calls = <<>> => (_redis = "None" /\ cached = 0 /\ made = 0))
    /\ made = Cardinality({i \in DOMAIN calls : Constructed(calls[i])})
    /\ (cached = 0) = (made = 0)
    /\ \A i \in DOMAIN calls, j \in DOMAIN calls :
          (i < j /\ calls[i].pc = "done")
             => /\ ~Attempted(calls[j])
                /\ calls[i].ret # 0
                /\ calls[j].pc = "done" => calls[j].ret = calls[i].ret

\* a failed access, then one that constructs, then one served from the cache
C11_Witness ==
    /\ Len(calls) = 3
    /\ calls[1].pc = "raised"
    /\ calls[2].pc = "done" /\ Constructed(calls[2])
    /\ calls[3].pc = "done" /\ calls[3].ret = calls[2].ret

\* C12: one store instance holds at most one handle, also when the first
\* accesses of several threads interleave: no two clients are constructed
\* and no two accesses return different handles
C12_OneHandle ==
    /\ made <= 1
    /\ \A i \in DOMAIN calls, j \in DOMAIN calls :
          (calls[i].pc = "done" /\ calls[j].pc = "done") => calls[i].ret = calls[j].ret

\* C13: the single-node fallback is attempted if and only if the cluster
\* construction failed because the target is not a cluster; any other
\* failure propagates without a fallback attempt and without a cached handle
C13_FallbackIffNotACluster ==
    \A i \in DOMAIN calls :
       /\ calls[i].single # "untried" => calls[i].cluster = "NotACluster"
       /\ (calls[i].cluster = "NotACluster" /\ calls[i].pc # "single")
             => calls[i].single # "untried"
       /\ calls[i].pc = "raised" => ~Constructed(calls[i])

-----------------------------------------------------------------------------
(* EndpointResolver: RedisStore.__init__ and urllib.parse.urlparse *)

\* s.rfind(c): the highest 0-based index holding c, or -1
RFind(s, c) ==
    LET hits == {i \in 0..(Len(s) - 1) : s[i + 1] = c}
    IN  IF hits = {} THEN -1
        ELSE CHOOSE i \in hits : \A j \in hits : i >= j

Alpha == {"r", "e", "d", "i", "s", "u", "p", "h", "R", "H", "N", "o", "n"}
Digits == <<"0", "1", "2", "3", "4", "5", "6", "7", "8", "9">>
IsDigit(c) == \E d \in DOMAIN Digits : Digits[d] = c

\* urllib.parse.scheme_chars: letters, digits and "+-."
SchemeChars == Alpha \cup {Digits[d] : d \in DOMAIN Digits} \cup {"+", "-", "."}

\* str.lower()
LowerChar(c) == IF c = "R" THEN "r" ELSE IF c = "H" THEN "h" ELSE IF c = "N" THEN "n" ELSE c
Lower(s) == [i \in DOMAIN s |-> LowerChar(s[i])]

\* position of the ":" that ends a scheme, or -1 when the url has no scheme
SchemeEnd(url) ==
    LET i == Find(url, ":", 0)
    IN  IF i > 0 /\ url[1] \in Alpha /\ \A j \in 1..i : url[j] \in SchemeChars
        THEN i ELSE -1

\* urlparse(url): scheme, netloc and the rest
UrlParse(url) ==
    LET i      == SchemeEnd(url)
        scheme == IF i > 0 THEN Lower(PySlice(url, 0, i)) ELSE <<>>
        rest   == IF i > 0 THEN PySliceFrom(url, i + 1) ELSE url
        slash  == Find(rest, "/", 2)
        delim  == IF slash = -1 THEN Len(rest) ELSE slash
    IN  IF PySlice(rest, 0, 2) = <<"/", "/">>
        THEN [scheme |-> scheme, netloc |-> PySlice(rest, 2, delim),
              path |-> PySliceFrom(rest, delim)]
        ELSE [scheme |-> scheme, netloc |-> <<>>, path |-> rest]

\* netloc.rpartition("@")
UserInfo(netloc) ==
    LET at == RFind(netloc, "@")
    IN  IF at = -1 THEN None ELSE Some(PySlice(netloc, 0, at))
HostInfo(netloc) == PySliceFrom(netloc, RFind(netloc, "@") + 1)

\* ParseResult.username
Username(parsed) ==
    LET info == UserInfo(parsed.netloc)
    IN  IF info = None THEN None
        ELSE LET colon == Find(info[1], ":", 0)
             IN  Some(IF colon = -1 THEN info[1] ELSE PySlice(info[1], 0, colon))

\* ParseResult.password
Password(parsed) ==
    LET info == UserInfo(parsed.netloc)
    IN  IF info = None THEN None
        ELSE LET colon == Find(info[1], ":", 0)
             IN  IF colon = -1 THEN None ELSE Some(PySliceFrom(info[1], colon + 1))

\* ParseResult.hostname
Hostname(parsed) ==
    LET info  == HostInfo(parsed.netloc)
        colon == Find(info, ":", 0)
        host  == IF colon = -1 THEN info ELSE PySlice(info, 0, colon)
    IN  IF host = <<>> THEN None ELSE Some(Lower(host))

RECURSIVE IntOf(_)
\* int(s), s made of decimal digits
IntOf(s) ==
    IF s = <<>> THEN 0
    ELSE 10 * IntOf(PySlice(s, 0, Len(s) - 1))
         + (CHOOSE d \in 0..9 : Digits[d + 1] = s[Len(s)])

RECURSIVE StrOf(_)
\* str(n), n >= 0
StrOf(n) == IF n < 10 THEN <<Digits[n + 1]>> ELSE StrOf(n \div 10) \o <<Digits[(n % 10) + 1]>>

\* ParseResult.port: None, the port number, or ValueError
Port(parsed) ==
    LET info  == HostInfo(parsed.netloc)
        colon == Find(info, ":", 0)
        text  == IF colon = -1 THEN <<>> ELSE PySliceFrom(info, colon + 1)
    IN  IF text = <<>> THEN [status |-> "ok", value |-> None]
        ELSE IF (\A j \in DOMAIN text : IsDigit(text[j])) /\ IntOf(text) <= 65535
        THEN [status |-> "ok", value |-> Some(IntOf(text))]
        ELSE [status |-> "ValueError", value |-> None]

\* truth value of an optional string: None and "" are false
Truthy(opt) == opt # None /\ opt[1] # <<>>

\* an optional string inside an f-string
Text(opt) == IF opt = None THEN <<"N", "o", "n", "e">> ELSE opt[1]

REDIS_DEFAULT_PORT == <<"6", "3", "7", "9">>
scheme_sep == <<":", "/", "/">>
redis_scheme == <<"r", "e", "d", "i", "s">>
rediss_scheme == <<"r", "e", "d", "i", "s", "s">>

\* RedisStore.__init__(parent, schema, name, endpoint, secrets), with
\* mlrun.mlconf.redis.url = conf_url and the secrets REDIS_USER = user,
\* REDIS_PASSWORD = password
Resolve(endpoint, schema, conf_url, user, password) ==
    LET effective == IF endpoint # <<>> THEN endpoint ELSE conf_url
        first     == UrlParse(effective)
        parsed    == IF first.scheme # redis_scheme /\ first.scheme # rediss_scheme
                     THEN UrlParse(schema \o scheme_sep \o effective)
                     ELSE first
        port      == Port(parsed)
        porttext  == IF port.value # None /\ port.value[1] # 0
                     THEN StrOf(port.value[1]) ELSE REDIS_DEFAULT_PORT
        hostport  == Text(Hostname(parsed)) \o <<":">> \o porttext
    IN  IF Truthy(Username(parsed)) \/ Truthy(Password(parsed))
        THEN [status |-> "MLRunInvalidArgumentError", endpoint |-> effective]
        ELSE IF port.status # "ok"
        THEN [status |-> port.status, endpoint |-> effective]
        ELSE [status |-> "ok", endpoint |-> effective,
              secure |-> parsed.scheme = rediss_scheme,
              _redis_url |-> IF user # <<>> \/ password # <<>>
                             THEN parsed.scheme \o scheme_sep \o user \o <<":">>
                                  \o password \o <<"@">> \o hostport
                             ELSE parsed.scheme \o scheme_sep \o hostport]

\* endpoints handed to the constructor: an optional store scheme, optional
\* credentials, a host, an optional port
EndpointSchemes == {<<>>, redis_prefix, rediss_prefix}
EndpointCreds == {<<>>, <<"u", "@">>, <<"u", ":", "p", "@">>, <<":", "p", "@">>,
                  <<"r", "e", "d", "i", "s", ":", "p", "@">>}
EndpointPorts == {<<>>, <<":", "1">>, <<":", "p">>}
Endpoints == {<<>>} \cup {s \o c \o <<"h">> \o q :
                            s \in EndpointSchemes, c \in EndpointCreds, q \in EndpointPorts}
ConfUrls == {redis_prefix \o <<"h">>, <<"u", ":", "p", "@", "h">>}
SecretValues == {<<>>, <<"U">>}

InitEndpoint ==
    /\ \E e \in Endpoints, sch \in {redis_scheme, rediss_scheme}, c \in ConfUrls,
          u \in SecretValues, pw \in SecretValues :
          /\ e # <<>> => c = redis_prefix \o <<"h">>
          /\ ctor = [stage |-> "args", endpoint |-> e, schema |-> sch, conf_url |-> c,
                     user |-> u, password |-> pw]
    /\ db = [x \in {} |-> <<>>]
    /\ _redis = "None"
    /\ last = [op |-> "none"]
    /\ wrote = [op |-> "none"]
    /\ CodecIdle
    /\ ConnIdle
    /\ StepIdle
    /\ ApiIdle

\* the constructor runs: it raises, or leaves _redis_url and _redis = None
Construct ==
    /\ ctor.stage = "args"
    /\ ctor' = [stage |-> "returned", args |-> ctor,
                out |-> Resolve(ctor.endpoint, ctor.schema, ctor.conf_url,
                                ctor.user, ctor.password)]
    /\ UNCHANGED <<storeVars, codecVars, connVars, stepVars, apiVars>>

NextEndpoint == Construct

SpecEndpoint == InitEndpoint /\ [][NextEndpoint]_vars

\* the raw endpoint without its store scheme
Unschemed(raw) ==
    IF StartsWith(raw, redis_prefix) THEN PySliceFrom(raw, Len(redis_prefix))
    ELSE IF StartsWith(raw, rediss_prefix) THEN PySliceFrom(raw, Len(rediss_prefix))
    ELSE raw

\* the raw endpoint carries a non-empty user name or password before its host
EmbedsCredentials(raw) ==
    LET rest  == Unschemed(raw)
        slash == Find(rest, "/", 0)
        auth  == IF slash = -1 THEN rest ELSE PySlice(rest, 0, slash)
        at    == RFind(auth, "@")
    IN  at # -1 /\ PySlice(auth, 0, at) \notin {<<>>, <<":">>}

\* the text of a connection URL between "://" and the "@" of its credential
\* segment: None when the URL has no such segment
CredentialSegment(url) ==
    LET at == RFind(url, "@")
    IN  IF at = -1 THEN None ELSE Some(PySlice(url, Find(url, "/", 0) + 2, at))

\* C14: the constructor fails with invalid-argument whenever the raw endpoint
\* embeds a user name or a password, with or without a store scheme; the
\* credentials of a URL it builds are those of the secret lookup, and the URL
\* has no credential segment when the lookup yields neither
C14_CredentialsOnlyFromSecrets ==
    ctor.stage = "returned" =>
       /\ EmbedsCredentials(ctor.out.endpoint)
            => ctor.out.status = "MLRunInvalidArgumentError"
       /\ ctor.out.status = "ok"
            => CredentialSegment(ctor.out._redis_url)
                 = IF ctor.args.user = <<>> /\ ctor.args.password = <<>> THEN None
                   ELSE Some(ctor.args.user \o <<":">> \o ctor.args.password)

\* the second half alone: what a built URL carries as credentials
UrlCredentialsFromSecrets ==
    (ctor.stage = "returned" /\ ctor.out.status = "ok")
       => CredentialSegment(ctor.out._redis_url)
            = IF ctor.args.user = <<>> /\ ctor.args.password = <<>> THEN None
              ELSE Some(ctor.args.user \o <<":">> \o ctor.args.password)

-----------------------------------------------------------------------------
(* The operations command by command: upload, get, put, listdir, rm *)

\* bytes one f.read returns at most: stands for the 1000 * 1000 of upload
ChunkSize == 2

\* longest value an upload or an appending put may leave
MaxStored == 4

\* f.read(n) that loses the last byte of a full chunk
FileRead_Short(src, n) == PySlice(src, 0, n - 1)

\* f.read(n): the next n bytes of the file, fewer at its end
FileRead(src, n) == PySlice(src, 0, n)

\* the file past the bytes a read returned
FileRest(src, n) == PySliceFrom(src, n)

\* a handler that goes on after a failed command
Propagates_Swallowed(o) == FALSE

\* a command that fails raises, and no handler catches: the operation ends
Propagates(o) == o # "ok"

\* the aux pass first
Passes_AuxFirst(pattern) == <<spark_prefix \o pattern, pattern>>

\* the scan patterns of a recursive rm, in the order of its two loops
Passes(pattern) == <<pattern, spark_prefix \o pattern>>

\* an iteration that stops whatever is left to yield
ScanComplete_Early(todo, seen, t) == TRUE

\* scan_iter is exhausted: SCAN has returned every key that was there for the
\* whole iteration; a key another client wrote or deleted meanwhile may be
\* missed
ScanComplete(todo, seen, t) == todo \ seen \subseteq t

\* what scan_iter may yield next: a key of the matches it started with, or a
\* matching key that appeared since, none of them twice
ScanCandidates(d, pattern, todo, seen) == (todo \cup RedisScan(d, pattern)) \ seen

\* no operation is in progress; last then holds the outcome of the previous
\* one, from its end to the start of the next
Idle == run = [op |-> "none"]

\* an operation that has encoded its key and checked its arguments
Started(op, k, args, rkey, stage, patterns, src) ==
    [op |-> op, key |-> k, args |-> args, rkey |-> rkey, stage |-> stage,
     patterns |-> patterns, pass |-> 1, src |-> src, todo |-> {}, seen |-> {},
     acc |-> <<>>, cmds |-> <<>>, pre |-> db, pre_redis |-> _redis]

\* a backend command as issued: its name, its key or pattern, whether it
\* succeeded, and the pass of a recursive rm that issued it (0: none)
Cmd(name, k, ok, pass) == [name |-> name, key |-> k, ok |-> ok, pass |-> pass]

\* the operation ends: what its caller gets, and the backend it leaves
Ended(r, status, ret, cmds, post) ==
    [op |-> r.op, key |-> r.key, args |-> r.args, rkey |-> r.rkey, status |-> status,
     ret |-> ret, cmds |-> cmds, patterns |-> r.patterns, pass |-> r.pass,
     pre |-> r.pre, pre_redis |-> r.pre_redis, post |-> post, touched |-> touched]

\* an operation that ends before any backend command
Rejected(op, k, args, status) ==
    [op |-> op, key |-> k, args |-> args, rkey |-> <<>>, status |-> status,
     ret |-> None, cmds |-> <<>>, patterns |-> <<>>, pass |-> 1,
     pre |-> db, pre_redis |-> _redis, post |-> db, touched |-> {}]

\* upload(key, src_path): the key is encoded, the file opened
StartUpload(k, file) ==
    /\ Idle
    /\ LET rkey == build_redis_key(k, FALSE)
           old  == IF rkey \in DOMAIN db THEN db[rkey] ELSE <<>>
       IN  /\ Len(old) + Len(file) <= MaxStored
           /\ run' = Started("upload", k, [file |-> file], rkey, "loop", <<>>, file)
    /\ touched' = {}
    /\ last' = [op |-> "none"]
    /\ UNCHANGED <<db, _redis>>

\* put(key, data, append): the key is encoded
StartPut(k, data, append) ==
    /\ Idle
    /\ LET rkey == build_redis_key(k, FALSE)
           old  == IF append /\ rkey \in DOMAIN db THEN db[rkey] ELSE <<>>
       IN  /\ Len(old) + Len(data) <= MaxStored
           /\ run' = Started("put", k, [data |-> data, append |-> append], rkey,
                             "cmd", <<>>, <<>>)
    /\ touched' = {}
    /\ last' = [op |-> "none"]
    /\ UNCHANGED <<db, _redis>>

\* get(key, size, offset): the key is encoded, the arguments checked
StartGet(k, size, offset) ==
    /\ Idle
    /\ touched' = {}
    /\ LET args == [size |-> size, offset |-> offset]
       IN  IF GetArgsInvalid(size, offset)
           THEN /\ last' = Rejected("get", k, args, "MLRunInvalidArgumentError")
                /\ UNCHANGED run
           ELSE /\ run' = Started("get", k, args, build_redis_key(k, FALSE), "cmd",
                                  <<>>, <<>>)
                /\ last' = [op |-> "none"]
    /\ UNCHANGED <<db, _redis>>

\* listdir(key): the pattern is built
StartListdir(k) ==
    /\ Idle
    /\ run' = Started("listdir", k, <<>>, build_redis_key(k, TRUE), "open",
                      <<ScanPattern(build_redis_key(k, TRUE))>>, <<>>)
    /\ touched' = {}
    /\ last' = [op |-> "none"]
    /\ UNCHANGED <<db, _redis>>

\* rm(key, recursive, maxdepth): maxdepth is checked, the key encoded
StartRm(k, recursive, maxdepth) ==
    /\ Idle
    /\ touched' = {}
    /\ LET args == [recursive |-> recursive, maxdepth |-> maxdepth]
           rkey == build_redis_key(k, recursive)
       IN  IF RmUnsupported(maxdepth)
           THEN /\ last' = Rejected("rm", k, args, "NotImplementedError")
                /\ UNCHANGED run
           ELSE /\ run' = IF recursive
                          THEN Started("rm", k, args, rkey, "open",
                                       Passes(ScanPattern(rkey)), <<>>)
                          ELSE Started("rm", k, args, rkey, "cmd", <<>>, <<>>)
                /\ last' = [op |-> "none"]
    /\ UNCHANGED <<db, _redis>>

\* the one command of put, get and a plain rm, through self.redis
Exec(env, o) ==
    /\ ~Idle
    /\ run.stage = "cmd"
    /\ LET conn == Connect(_redis, env)
           name == IF run.op = "get" THEN "GETRANGE"
                   ELSE IF run.op = "rm" THEN "DEL"
                   ELSE IF run.args.append THEN "APPEND" ELSE "SET"
           cmds == Append(run.cmds, Cmd(name, run.rkey, o = "ok", 0))
           post == IF name = "SET" THEN RedisSet(db, run.rkey, run.args.data)
                   ELSE IF name = "APPEND" THEN RedisAppend(db, run.rkey, run.args.data)
                   ELSE IF name = "DEL" THEN RedisDelete(db, run.rkey)
                   ELSE db
           reply == IF name = "GETRANGE"
                    THEN DecodeResponse(RedisGetRange(db, run.rkey, run.args.offset,
                            IF run.args.size = None THEN -1
                            ELSE run.args.offset + run.args.size[1] - 1))
                    ELSE [status |-> "ok", ret |-> None]
       IN  /\ _redis' = conn.handle
           /\ IF conn.status # "ok"
              THEN /\ last' = Ended(run, conn.status, None, run.cmds, db)
                   /\ run' = [op |-> "none"]
                   /\ UNCHANGED db
              ELSE IF Propagates(o)
              THEN /\ last' = Ended(run, o, None, cmds, db)
                   /\ run' = [op |-> "none"]
                   /\ UNCHANGED db
              ELSE /\ db' = post
                   /\ last' = Ended(run, reply.status,
                                    IF reply.status = "ok" THEN Some(reply.ret) ELSE None,
                                    cmds, post)
                   /\ run' = [op |-> "none"]
    /\ UNCHANGED touched

\* one turn of upload's loop: read a chunk, stop at the end of the file,
\* else append the chunk through self.redis
UploadChunk(env, read, o) ==
    /\ ~Idle
    /\ run.stage = "loop"
    /\ LET data == FileRead(run.src, ChunkSize)
           conn == Connect(_redis, env)
           cmds == Append(run.cmds, Cmd("APPEND", run.rkey, o = "ok", 0))
       IN  IF read # "ok"
           THEN /\ last' = Ended(run, read, None, run.cmds, db)
                /\ run' = [op |-> "none"]
                /\ UNCHANGED <<db, _redis>>
           ELSE IF data = <<>>
           THEN /\ last' = Ended(run, "ok", None, run.cmds, db)
                /\ run' = [op |-> "none"]
                /\ UNCHANGED <<db, _redis>>
           ELSE /\ _redis' = conn.handle
                /\ IF conn.status # "ok"
                   THEN /\ last' = Ended(run, conn.status, None, run.cmds, db)
                        /\ run' = [op |-> "none"]
                        /\ UNCHANGED db
                   ELSE IF Propagates(o)
                   THEN /\ last' = Ended(run, o, None, cmds, db)
                        /\ run' = [op |-> "none"]
                        /\ UNCHANGED db
                   ELSE /\ db' = RedisAppend(db, run.rkey, data)
                        /\ run' = [run EXCEPT !.src = FileRest(run.src, ChunkSize),
                                              !.cmds = cmds]
                        /\ UNCHANGED last
    /\ UNCHANGED touched

\* self.redis.scan_iter(pattern): the iteration of the current pass begins
ScanOpen(env) ==
    /\ ~Idle
    /\ run.stage = "open"
    /\ LET conn == Connect(_redis, env)
           pattern == run.patterns[run.pass]
       IN  /\ _redis' = conn.handle
           /\ IF conn.status # "ok"
              THEN /\ last' = Ended(run, conn.status, None, run.cmds, db)
                   /\ run' = [op |-> "none"]
              ELSE /\ run' = [run EXCEPT !.stage = "scan",
                                         !.todo = RedisScan(db, pattern),
                                         !.seen = {},
                                         !.cmds = Append(run.cmds,
                                                     Cmd("SCAN", pattern, TRUE, run.pass))]
                   /\ UNCHANGED last
    /\ UNCHANGED <<db, touched>>

\* the iteration yields k: listdir decodes and collects it, rm deletes it
ScanNext(k, o) ==
    /\ ~Idle
    /\ run.stage = "scan"
    /\ k \in ScanCandidates(db, run.patterns[run.pass], run.todo, run.seen)
    /\ IF run.op = "listdir"
       THEN /\ o = "ok"
            /\ run' = [run EXCEPT !.seen = run.seen \cup {k},
                                  !.acc = Append(run.acc, build_mlrun_key(k))]
            /\ UNCHANGED <<db, last>>
       ELSE LET cmds == Append(run.cmds, Cmd("DEL", k, o = "ok", run.pass))
            IN  IF Propagates(o)
                THEN /\ last' = Ended(run, o, None, cmds, db)
                     /\ run' = [op |-> "none"]
                     /\ UNCHANGED db
                ELSE /\ db' = RedisDelete(db, k)
                     /\ run' = [run EXCEPT !.seen = run.seen \cup {k}, !.cmds = cmds]
                     /\ UNCHANGED last
    /\ UNCHANGED <<_redis, touched>>

\* a SCAN of the iteration fails
ScanFail(o) ==
    /\ ~Idle
    /\ run.stage = "scan"
    /\ Propagates(o)
    /\ last' = Ended(run, o, None,
                     Append(run.cmds, Cmd("SCAN", run.patterns[run.pass], FALSE, run.pass)),
                     db)
    /\ run' = [op |-> "none"]
    /\ UNCHANGED <<db, _redis, touched>>

\* the iteration is exhausted: the next loop of rm begins, or the operation
\* returns
ScanEnd ==
    /\ ~Idle
    /\ run.stage = "scan"
    /\ ScanComplete(run.todo, run.seen, touched)
    /\ IF run.pass < Len(run.patterns)
       THEN /\ run' = [run EXCEPT !.pass = run.pass + 1, !.stage = "open"]
            /\ UNCHANGED last
       ELSE /\ last' = Ended(run, "ok",
                             IF run.op = "listdir" THEN Some(run.acc) ELSE None,
                             run.cmds, db)
            /\ run' = [op |-> "none"]
    /\ UNCHANGED <<db, _redis, touched>>

\* another client of the backend sets a key while the operation runs
ClientSet(k, v) ==
    /\ ~Idle
    /\ db' = RedisSet(db, k, v)
    /\ touched' = touched \cup {k}
    /\ UNCHANGED <<_redis, last, run>>

\* another client of the backend deletes a key while the operation runs
ClientDel(k) ==
    /\ ~Idle
    /\ k \in DOMAIN db
    /\ db' = RedisDelete(db, k)
    /\ touched' = touched \cup {k}
    /\ UNCHANGED <<_redis, last, run>>

StepFrame == UNCHANGED <<wrote, codecVars, connVars, ctor, apiVars>>

-----------------------------------------------------------------------------
(* SpecSteps: one client, commands that may fail *)

slash_a == <<"/", "a">>
slash_a_y == <<"/", "a", "/", "y">>
a_b == <<"a", "b">>

\* the bytes of the longest source file: one chunk and one byte more
FileBytes == [i \in 1..(ChunkSize + 1) |-> 96 + i]

\* source files: empty, shorter than a chunk, one chunk, more than a chunk
UploadFiles == {SubSeq(FileBytes, 1, n) : n \in {0, 1, ChunkSize, ChunkSize + 1}}

StepPuts == {<<slash_a_x, FALSE>>, <<slash_a_y, FALSE>>, <<a_b, FALSE>>}
StepUploadKeys == {slash_a_x}
StepGetSizes == {None, Some(0)}
StepRmKeys == {slash_a, slash_a_x}

\* how a command or a read of the source file ends
CmdOutcomes == {"ok", "BackendError"}
ReadOutcomes == {"ok", "ReadError"}

\* RedisStore.__init__: no handle yet; the backend may hold staged keys
InitSteps ==
    /\ db \in UNION {[S -> DirData] : S \in SUBSET SparkKeys}
    /\ _redis = "None"
    /\ last = [op |-> "none"]
    /\ wrote = [op |-> "none"]
    /\ CodecIdle
    /\ ProcIdle

NextSteps ==
    \/ \E k \in StepUploadKeys, file \in UploadFiles : StartUpload(k, file) /\ StepFrame
    \/ \E p \in StepPuts, data \in DirData : StartPut(p[1], data, p[2]) /\ StepFrame
    \/ \E size \in StepGetSizes : StartGet(slash_a_x, size, 0) /\ StepFrame
    \/ StartListdir(slash_a) /\ StepFrame
    \/ \E k \in StepRmKeys, recursive \in BOOLEAN, maxdepth \in DirMaxdepths :
          StartRm(k, recursive, maxdepth) /\ StepFrame
    \/ \E env \in Envs, o \in CmdOutcomes : Exec(env, o) /\ StepFrame
    \/ \E env \in Envs, read \in ReadOutcomes, o \in CmdOutcomes :
          UploadChunk(env, read, o) /\ StepFrame
    \/ \E env \in Envs : ScanOpen(env) /\ StepFrame
    \/ \E k \in DOMAIN db, o \in CmdOutcomes : ScanNext(k, o) /\ StepFrame
    \/ \E o \in CmdOutcomes : ScanFail(o) /\ StepFrame
    \/ ScanEnd /\ StepFrame

SpecSteps == InitSteps /\ [][NextSteps]_vars

\* the commands that store, append to or delete one named key
StoresKey(c) == c.name \in {"SET", "APPEND"} \/ (c.name = "DEL" /\ c.pass = 0)

\* the two physical forms of a logical key, as the specification words them
Terminated(k) == <<"{">> \o PathTailOf(k) \o <<"}">>
Unterminated(k) == <<"{">> \o PathTailOf(k)

\* C15: whatever operations ran, every key written to the backend has the
\* terminated form "{" + tail + "}", tail being the part of the logical key
\* from the first "/" at or after the scheme prefix; the unterminated form is
\* never stored, appended to or deleted as a key
C15_WrittenKeysTerminated ==
    last.op \in {"upload", "put", "get", "listdir", "rm"} =>
       \A i \in DOMAIN last.cmds :
          /\ StoresKey(last.cmds[i])
               => (HasPathTail(last.key) /\ last.cmds[i].key = Terminated(last.key))
          /\ last.cmds[i].name \in {"SET", "APPEND", "DEL"}
               => last.cmds[i].key # Unterminated(last.key)

\* the same on the logical keys that have a "/" at or after the scheme prefix
WrittenKeysTerminatedWithSlash ==
    (last.op \in {"upload", "put", "get", "listdir", "rm"} /\ HasPathTail(last.key)) =>
       \A i \in DOMAIN last.cmds :
          /\ StoresKey(last.cmds[i]) => last.cmds[i].key = Terminated(last.key)
          /\ last.cmds[i].name \in {"SET", "APPEND", "DEL"}
               => last.cmds[i].key # Unterminated(last.key)

\* the primary scan pattern of rm(k, recursive=True), and the aux keys
PrimaryPattern(k) == ScanPattern(Unterminated(k))
IsAux(rk) == StartsWith(rk, spark_prefix)
AuxDeletes(cmds) == {i \in DOMAIN cmds : cmds[i].name = "DEL" /\ IsAux(cmds[i].key)}
PrimaryDeletes(cmds) == {i \in DOMAIN cmds : cmds[i].name = "DEL" /\ ~IsAux(cmds[i].key)}

\* the command that failed is of the primary pass
PrimaryFailed(r) ==
    /\ r.cmds # <<>>
    /\ ~r.cmds[Len(r.cmds)].ok
    /\ \/ r.cmds[Len(r.cmds)].key = PrimaryPattern(r.key)
       \/ GlobMatch(PrimaryPattern(r.key), r.cmds[Len(r.cmds)].key)

\* C16: in a recursive rm the pass over the primary pattern is complete
\* before the pass over the "_spark:" pattern starts: no aux key is deleted
\* while a match of the primary pattern is left, and when the primary pass
\* ends with a backend error no aux key is deleted at all
C16_PrimaryBeforeAux ==
    /\ (~Idle /\ run.op = "rm" /\ run.args.recursive /\ AuxDeletes(run.cmds) # {})
          => RedisScan(db, PrimaryPattern(run.key)) = {}
    /\ (last.op = "rm" /\ last.args.recursive /\ AuxDeletes(last.cmds) # {})
          => RedisScan(last.post, PrimaryPattern(last.key)) = {}
    /\ (last.op = "rm" /\ last.args.recursive /\ PrimaryFailed(last))
          => /\ AuxDeletes(last.cmds) = {}
             /\ \A rk \in DOMAIN last.pre : IsAux(rk) => rk \in DOMAIN last.post

\* a recursive rm that deleted a primary key, then an aux key
C16_Witness ==
    /\ last.op = "rm" /\ last.args.recursive /\ last.status = "ok"
    /\ PrimaryDeletes(last.cmds) # {}
    /\ AuxDeletes(last.cmds) # {}

\* the lengths of the prefixes of a file that are made of whole chunks
ChunkEnds(file) == {n \in 0..Len(file) : n % ChunkSize = 0 \/ n = Len(file)}

\* C17: upload appends the chunks of the source in order, each once: when it
\* completes the value of the key is its previous value followed by the whole
\* source, when a read or a command fails midway it is the previous value
\* followed by a prefix of the source made of whole chunks; no other key
\* changes
C17_UploadAppends ==
    /\ (~Idle /\ run.op = "upload")
          => \E n \in ChunkEnds(run.args.file) :
                /\ ValueOf(db, run.rkey)
                     = ValueOf(run.pre, run.rkey) \o SubSeq(run.args.file, 1, n)
                /\ run.src = PySliceFrom(run.args.file, n)
    /\ last.op = "upload"
          => /\ last.status = "ok"
                  => ValueOf(last.post, last.rkey)
                       = ValueOf(last.pre, last.rkey) \o last.args.file
             /\ last.status # "ok"
                  => \E n \in ChunkEnds(last.args.file) :
                        ValueOf(last.post, last.rkey)
                          = ValueOf(last.pre, last.rkey) \o SubSeq(last.args.file, 1, n)
             /\ \A i \in DOMAIN last.cmds :
                   last.cmds[i].name = "APPEND" /\ last.cmds[i].key = last.rkey
             /\ \A rk \in (DOMAIN last.pre \cup DOMAIN last.post) \ {last.rkey} :
                   /\ rk \in DOMAIN last.pre /\ rk \in DOMAIN last.post
                   /\ last.post[rk] = last.pre[rk]

\* an upload of more than one chunk onto a key that held a value
C17_Witness ==
    /\ last.op = "upload" /\ last.status = "ok"
    /\ Len(last.args.file) > ChunkSize
    /\ last.rkey \in DOMAIN last.pre
    /\ last.pre[last.rkey] # <<>>
    /\ Len(last.cmds) = 2

\* an upload stopped by a backend failure after its first chunk
UploadStoppedMidway ==
    /\ last.op = "upload" /\ last.status = "BackendError"
    /\ Len(last.cmds) = 2
    /\ ValueOf(last.post, last.rkey) # ValueOf(last.pre, last.rkey)

\* the keys the successful DEL commands of an operation name
Deleted(cmds) == {cmds[i].key : i \in {j \in DOMAIN cmds : cmds[j].name = "DEL" /\ cmds[j].ok}}

\* C19: a backend command that fails ends the operation: the error reaches
\* the caller and no further command is issued; a failed listdir returns no
\* partial result, a recursive rm that fails partway leaves deleted exactly
\* the keys it deleted before the failure
C19_FailureEndsOperation ==
    /\ ~Idle => \A i \in DOMAIN run.cmds : run.cmds[i].ok
    /\ last.op \in {"upload", "put", "get", "listdir", "rm"}
          => /\ \A i \in DOMAIN last.cmds : i < Len(last.cmds) => last.cmds[i].ok
             /\ (last.cmds # <<>> /\ ~last.cmds[Len(last.cmds)].ok)
                   => /\ last.status = "BackendError"
                      /\ last.ret = None
                      /\ last.op \in {"put", "get", "listdir"} => last.post = last.pre
                      /\ last.op = "rm"
                           => last.post = [rk \in DOMAIN last.pre \ Deleted(last.cmds)
                                              |-> last.pre[rk]]

\* a recursive rm that failed after its first delete, a match still stored
C19_Witness ==
    /\ last.op = "rm" /\ last.args.recursive /\ last.status = "BackendError"
    /\ Deleted(last.cmds) # {}
    /\ RedisScan(last.post, PrimaryPattern(last.key)) # {}
    /\ last.post # last.pre

-----------------------------------------------------------------------------
(* SpecRace: rm while another client writes and deletes keys *)

\* the keys the two clients meet on: one under /a, one staged under
\* "_spark:", one elsewhere
RaceKeys == {build_redis_key(slash_a_x, FALSE),
             spark_prefix \o build_redis_key(slash_a_x, FALSE),
             build_redis_key(slash_b_z, FALSE)}

\* what the other client stores
ClientData == {<<98>>}

\* RedisStore.__init__: no handle yet; the backend holds any of the keys
InitRace ==
    /\ db \in UNION {[S -> DirData] : S \in SUBSET RaceKeys}
    /\ _redis = "None"
    /\ last = [op |-> "none"]
    /\ wrote = [op |-> "none"]
    /\ CodecIdle
    /\ ProcIdle

NextRace ==
    \/ \E recursive \in BOOLEAN : StartRm(slash_a, recursive, None) /\ StepFrame
    \/ \E env \in Envs : Exec(env, "ok") /\ StepFrame
    \/ \E env \in Envs : ScanOpen(env) /\ StepFrame
    \/ \E k \in RaceKeys : ScanNext(k, "ok") /\ StepFrame
    \/ ScanEnd /\ StepFrame
    \/ \E k \in RaceKeys, v \in ClientData : ClientSet(k, v) /\ StepFrame
    \/ \E k \in RaceKeys : ClientDel(k) /\ StepFrame

SpecRace == InitRace /\ [][NextRace]_vars

\* a physical key matches the primary or the aux pattern of rm(k, recursive)
MatchesRm(k, rk) ==
    \/ GlobMatch(PrimaryPattern(k), rk)
    \/ GlobMatch(spark_prefix \o PrimaryPattern(k), rk)

\* C18: while another client writes and deletes keys, a recursive rm deletes
\* no key that matches neither of its patterns, and when it returns every
\* matching key that was there at its start and that the other client did not
\* write meanwhile is absent; only matching keys the other client created or
\* re-created during the run are left
C18_RmUnderConcurrentWrites ==
    /\ (~Idle /\ run.op = "rm" /\ run.args.recursive)
          => \A i \in DOMAIN run.cmds :
                run.cmds[i].name = "DEL" => MatchesRm(run.key, run.cmds[i].key)
    /\ (last.op = "rm" /\ last.args.recursive /\ last.status = "ok")
          => /\ \A i \in DOMAIN last.cmds :
                   last.cmds[i].name = "DEL" => MatchesRm(last.key, last.cmds[i].key)
             /\ \A rk \in DOMAIN last.pre :
                   (MatchesRm(last.key, rk) /\ rk \notin last.touched)
                      => rk \notin DOMAIN last.post
             /\ \A rk \in DOMAIN last.post :
                   MatchesRm(last.key, rk) => rk \in last.touched
             /\ \A rk \in DOMAIN last.pre :
                   (~MatchesRm(last.key, rk) /\ rk \notin last.touched)
                      => (rk \in DOMAIN last.post /\ last.post[rk] = last.pre[rk])

\* a recursive rm returned: it deleted a key of its start, a key the other
\* client re-created meanwhile is left
C18_Witness ==
    /\ last.op = "rm" /\ last.args.recursive /\ last.status = "ok"
    /\ \E rk \in DOMAIN last.pre :
          MatchesRm(last.key, rk) /\ rk \notin last.touched /\ rk \notin DOMAIN last.post
    /\ \E rk \in DOMAIN last.post : MatchesRm(last.key, rk) /\ rk \in last.touched
    /\ \E rk \in DOMAIN last.post : ~MatchesRm(last.key, rk)

-----------------------------------------------------------------------------
(* Aliasing of logical keys, on SpecShard *)

\* C20: two logical keys address the same stored value if and only if their
\* path tails are equal: keys that differ only in what precedes the first "/"
\* after the scheme prefix encode to the same physical key, keys with
\* different path tails never do
C20_SameKeyIffSameTail ==
    pc = "encoded" => ((redis_key = redis_key2) <=> (PathTailOf(key) = PathTailOf(key2)))

\* the same on the logical keys that have a "/" at or after the scheme prefix
SameKeyIffSameTailWithSlash ==
    (pc = "encoded" /\ HasPathTail(key) /\ HasPathTail(key2))
       => ((redis_key = redis_key2) <=> (PathTailOf(key) = PathTailOf(key2)))

\* two different keys without such a "/" meet on one physical key as soon as
\* they end with the same character
NoSlashKeysMeetOnLastChar ==
    (pc = "encoded" /\ ~HasPathTail(key) /\ ~HasPathTail(key2) /\ key # <<>> /\ key2 # <<>>)
       => ((redis_key = redis_key2) <=> (key[Len(key)] = key2[Len(key2)]))

-----------------------------------------------------------------------------
(* SpecRuns: the run endpoints (src/server/api/api/endpoints/runs.py), one  *)
(* request at a time, await by await                                        *)

\* mlrun.mlconf.default_project
default_project == "default"

RunProjects == {"p", default_project}
RunUids == {"u"}
RunActions == {"store", "update", "delete"}

\* the endpoints that change runs
RunEndpoints == {"store_run", "update_run", "delete_run", "delete_runs",
                 "set_run_notifications", "abort_run"}

\* the project argument of a request: delete_runs also takes none ("") and "*"
RequestProjects(endpoint) ==
    IF endpoint = "delete_runs" THEN {"", "p", "*"} ELSE RunProjects

\* a handler that calls the CRUD layer (or creates the task) first
Steps_MutationFirst(endpoint, project) ==
    IF endpoint = "abort_run" THEN <<"task", "auth", "body">>
    ELSE IF endpoint = "delete_runs" /\ project = "*" THEN <<"crud", "list", "auth_each">>
    ELSE <<"crud", "auth">>

\* the awaits of each handler, in the order of its body
Steps(endpoint, project) ==
    IF endpoint = "store_run" THEN <<"ensure", "auth", "body", "crud">>
    ELSE IF endpoint = "update_run" THEN <<"auth", "body", "crud">>
    ELSE IF endpoint = "delete_run" THEN <<"auth", "crud">>
    ELSE IF endpoint = "delete_runs"
         THEN IF project = "" \/ project # "*"
              THEN <<"auth", "crud">>
              ELSE <<"list", "auth_each", "crud">>
    ELSE IF endpoint = "set_run_notifications" THEN <<"ensure", "auth", "crud">>
    ELSE <<"auth", "body", "task">>

\* the AuthorizationAction each handler asks for
AuthAction(endpoint) ==
    IF endpoint = "store_run" THEN "store"
    ELSE IF endpoint \in {"delete_run", "delete_runs"} THEN "delete"
    ELSE "update"

\* the project each handler asks about: project or mlrun.mlconf.default_project
AuthProject(project) == IF project = "" THEN default_project ELSE project

\* query_project_resource_permissions returns when the caller is allowed the
\* action on the project, and raises otherwise
Allows(g, project, action) == <<project, action>> \in g

\* server.api.crud.Runs().list_runs with the filter of delete_runs
ListedRuns(rs, project) ==
    IF project = "*" THEN rs ELSE {r \in rs : r[1] = AuthProject(project)}

\* the runs left by the CRUD call of each endpoint
CrudEffect(rs, endpoint, project, uid) ==
    IF endpoint = "store_run" THEN rs \cup {<<project, uid>>}
    ELSE IF endpoint = "delete_run" THEN rs \ {<<project, uid>>}
    ELSE IF endpoint = "delete_runs" THEN rs \ ListedRuns(rs, project)
    ELSE rs

\* an event of the request: what was asked or called, on which project
Event(ev, project, what) == [ev |-> ev, project |-> project, what |-> what]

Running == req.endpoint # "none" /\ req.status = "running"
Step == req.steps[req.at]

\* the request goes on to its next await, or returns after its last
Advance(r, by) ==
    IF r.at + by > Len(r.steps) THEN [r EXCEPT !.at = r.at + by, !.status = "ok"]
    ELSE [r EXCEPT !.at = r.at + by]

\* the handler is entered with its path and query parameters
Receive(endpoint, project, uid) ==
    /\ ~Running
    /\ req' = [endpoint |-> endpoint, project |-> project, uid |-> uid,
               steps |-> Steps(endpoint, project), at |-> 1, status |-> "running",
               trail |-> <<>>, listed |-> {}, todo |-> {},
               pre_runs |-> runs_db, pre_tasks |-> tasks]
    /\ UNCHANGED <<runs_db, tasks, granted>>

\* get_project_member().ensure_project(db_session, project, auth_info)
EnsureProject(o) ==
    /\ Running /\ Step = "ensure"
    /\ req' = IF o = "ok" THEN Advance(req, 1) ELSE [req EXCEPT !.status = o]
    /\ UNCHANGED <<runs_db, tasks, granted>>

\* AuthVerifier().query_project_resource_permissions(run, project, uid, action)
Authorize ==
    /\ Running /\ Step = "auth"
    /\ LET project == AuthProject(req.project)
           action  == AuthAction(req.endpoint)
       IN  req' = IF Allows(granted, project, action)
                  THEN Advance([req EXCEPT !.trail =
                                   Append(req.trail, Event("auth_ok", project, action))], 1)
                  ELSE [req EXCEPT !.trail =
                                   Append(req.trail, Event("auth_raise", project, action)),
                                   !.status = "MLRunAccessDeniedError"]
    /\ UNCHANGED <<runs_db, tasks, granted>>

\* delete_runs with project "*": the runs are listed, their projects collected
ListRuns ==
    /\ Running /\ Step = "list"
    /\ LET listed   == ListedRuns(runs_db, req.project)
           projects == {r[1] : r \in listed}
       IN  req' = Advance([req EXCEPT !.listed = listed, !.todo = projects,
                                      !.trail = Append(req.trail,
                                                   Event("list", req.project, "list_runs"))],
                          IF projects = {} THEN 2 ELSE 1)
    /\ UNCHANGED <<runs_db, tasks, granted>>

\* one turn of the loop over the projects of the listed runs
AuthorizeEach(run_project) ==
    /\ Running /\ Step = "auth_each"
    /\ run_project \in req.todo
    /\ req' = IF Allows(granted, run_project, "delete")
              THEN Advance([req EXCEPT !.todo = req.todo \ {run_project},
                                       !.trail = Append(req.trail,
                                                   Event("auth_ok", run_project, "delete"))],
                           IF req.todo = {run_project} THEN 1 ELSE 0)
              ELSE [req EXCEPT !.trail = Append(req.trail,
                                             Event("auth_raise", run_project, "delete")),
                               !.status = "MLRunAccessDeniedError"]
    /\ UNCHANGED <<runs_db, tasks, granted>>

\* data = await request.json(); a ValueError becomes a bad-request error
ParseBody(o) ==
    /\ Running /\ Step = "body"
    /\ req' = IF o = "ok" THEN Advance(req, 1) ELSE [req EXCEPT !.status = "BadRequest"]
    /\ UNCHANGED <<runs_db, tasks, granted>>

\* run_in_threadpool(server.api.crud...): the CRUD call of the handler
Mutate(o) ==
    /\ Running /\ Step = "crud"
    /\ LET called == [req EXCEPT !.trail =
                         Append(req.trail, Event("crud", req.project, req.endpoint))]
       IN  IF o = "ok"
           THEN /\ runs_db' = CrudEffect(runs_db, req.endpoint, req.project, req.uid)
                /\ req' = Advance(called, 1)
           ELSE /\ req' = [called EXCEPT !.status = o]
                /\ UNCHANGED runs_db
    /\ UNCHANGED <<tasks, granted>>

\* ProjectBackgroundTasksHandler().create_background_task(..., Runs().abort_run, ...)
CreateAbortTask ==
    /\ Running /\ Step = "task"
    /\ tasks' = tasks \cup {<<req.project, req.uid>>}
    /\ req' = Advance([req EXCEPT !.trail =
                          Append(req.trail, Event("task", req.project, "abort_run"))], 1)
    /\ UNCHANGED <<runs_db, granted>>

RunsFrame == UNCHANGED <<storeVars, codecVars, connVars, ctor, stepVars>>

\* how a collaborator call ends
CallOutcomes == {"ok", "raised"}

\* the server is up: some runs stored, some permissions granted to the caller
InitRuns ==
    /\ runs_db \in SUBSET (RunProjects \X RunUids)
    /\ granted \in SUBSET (RunProjects \X RunActions)
    /\ tasks = {}
    /\ req = [endpoint |-> "none"]
    /\ NoStore
    /\ CodecIdle
    /\ ConnIdle
    /\ CtorIdle
    /\ StepIdle

NextRuns ==
    \/ \E endpoint \in RunEndpoints, uid \in RunUids :
          \E project \in RequestProjects(endpoint) :
             Receive(endpoint, project, uid) /\ RunsFrame
    \/ \E o \in CallOutcomes : EnsureProject(o) /\ RunsFrame
    \/ Authorize /\ RunsFrame
    \/ ListRuns /\ RunsFrame
    \/ \E run_project \in RunProjects : AuthorizeEach(run_project) /\ RunsFrame
    \/ \E o \in {"ok", "ValueError"} : ParseBody(o) /\ RunsFrame
    \/ \E o \in CallOutcomes : Mutate(o) /\ RunsFrame
    \/ CreateAbortTask /\ RunsFrame

SpecRuns == InitRuns /\ [][NextRuns]_vars

\* the positions of the trail where a run mutation was invoked
Mutations(trail) == {i \in DOMAIN trail : trail[i].ev \in {"crud", "task"}}

\* before position i, the authorization query on the project returned, and
\* the caller does hold the permission it asked for
AuthorizedBefore(trail, i, project) ==
    \E j \in 1..(i - 1) :
       /\ trail[j].ev = "auth_ok"
       /\ trail[j].project = project
       /\ <<project, trail[j].what>> \in granted

AuthRaised(trail) == \E j \in DOMAIN trail : trail[j].ev = "auth_raise"

\* C21: in store_run, update_run, delete_run, delete_runs,
\* set_run_notifications and abort_run the run mutation (the CRUD call or the
\* creation of the abort task) is invoked only after the authorization query
\* of the request returned; when the query raises nothing is stored, updated,
\* deleted or aborted; delete_runs with project "*" checks the delete
\* permission on every project owning a listed run before it deletes
C21_AuthorizeBeforeMutation ==
    req.endpoint # "none" =>
       /\ \A i \in Mutations(req.trail) :
             IF req.endpoint = "delete_runs" /\ req.project = "*"
             THEN \A r \in req.listed : AuthorizedBefore(req.trail, i, r[1])
             ELSE AuthorizedBefore(req.trail, i, AuthProject(req.project))
       /\ AuthRaised(req.trail) => Mutations(req.trail) = {}
       /\ Mutations(req.trail) = {} => (runs_db = req.pre_runs /\ tasks = req.pre_tasks)
       /\ (req.endpoint = "delete_runs" /\ req.project = "*" /\ req.status = "ok")
             => \A r \in req.pre_runs : <<r[1], "delete">> \in granted

\* delete_runs on "*" deleted the runs of two projects, both checked
C21_Witness ==
    /\ req.endpoint = "delete_runs" /\ req.project = "*" /\ req.status = "ok"
    /\ Cardinality({r[1] : r \in req.listed}) = 2
    /\ Mutations(req.trail) # {}
    /\ runs_db = {}

\* a request stopped by its authorization query: nothing changed
DeniedLeavesRuns ==
    /\ req.endpoint = "delete_runs" /\ req.project = "*"
    /\ req.status = "MLRunAccessDeniedError"
    /\ Len(req.trail) = 3
    /\ runs_db = req.pre_runs /\ runs_db # {}

====
